---- MODULE Spec2Model ----
(***************************************************************************)
(* Model of src/lib/lib.ts: the ProtocolFileWriter singleton (its          *)
(* #madeDirs, #addresses and #abis fields), main / #work / #bancor /       *)
(* #dydx / #buildABIFile / #buildAddressesFile, makeBaseDirs and Assemble. *)
(*                                                                         *)
(* JavaScript promises are modelled by their state: every asynchronous     *)
(* collaborator call (makeDir, makeFile, BancorWriter, DyDxWriter) is a    *)
(* pending call that a later step resolves or rejects; every Promise.all   *)
(* is a record {state, err} settled by the first rejection or by the last  *)
(* fulfilment.  A synchronous stretch of code is one action.               *)
(*                                                                         *)
(* The arguments solver and net of main are only handed through to the     *)
(* writers and never read by lib.ts; they are not part of the state.       *)
(* Runs of Assemble on the singleton are sequential: a run starts when     *)
(* the previous one has settled and none of its calls is still in flight.  *)
(* contractImports is an argument of main that nothing reads before #work  *)
(* maps over it; the model draws the list at that step.  The names of the  *)
(* target directories are interchangeable, so the first run uses "d1".     *)
(***************************************************************************)
EXTENDS Integers, Sequences, FiniteSets, TLC

\* ------------------------------------------------------------------ bounds
MaxImports == 2
MaxRuns == 2

\* --------------------------------------------------------------- constants
\* SupportedProtocolsArray: the keys of the protocols table other than ERROR.
SupportedProtocolsArray == <<"BANCOR", "DYDX", "KYBER", "ONEINCH", "UNISWAP">>

Range(s) == {s[i] : i \in 1..Len(s)}

SupportedProtocol == Range(SupportedProtocolsArray)

\* The keys of #addresses and #abis: every supported protocol, then ERROR.
BucketKeys == SupportedProtocolsArray \o <<"ERROR">>

Buckets == Range(BucketKeys)

\* SupportedNetwork, in the key order of the #addresses initialiser.
SupportedNetworkArray == <<"MAINNET", "KOVAN", "ROPSTEN">>

SupportedNetwork == Range(SupportedNetworkArray)

\* The property names of the protocols table, as character sequences.
ProtocolKey ==
  [p \in Buckets |->
     CASE p = "BANCOR"  -> <<"B","A","N","C","O","R">>
       [] p = "DYDX"    -> <<"D","Y","D","X">>
       [] p = "KYBER"   -> <<"K","Y","B","E","R">>
       [] p = "ONEINCH" -> <<"O","N","E","I","N","C","H">>
       [] p = "UNISWAP" -> <<"U","N","I","S","W","A","P">>
       [] p = "ERROR"   -> <<"E","R","R","O","R">>]

\* The four directories makeBaseDirs creates under dir.
BaseDirPaths ==
  <<"/contracts/interfaces", "/contracts/libraries", "/lib", "/migrations">>

\* The directories #bancor and #dydx create under dir.
ProtocolDirPaths ==
  [p \in {"BANCOR", "DYDX"} |->
     IF p = "BANCOR"
       THEN <<"/contracts/interfaces/Bancor">>
       ELSE <<"/contracts/interfaces/DyDx", "/contracts/libraries/DyDx">>]

SupportPaths == UNION {Range(ProtocolDirPaths[p]) : p \in DOMAIN ProtocolDirPaths}

\* ------------------------------------------------------------------ inputs
\* Target directories handed to Assemble.
Dirs == {"d1", "d2"}

\* Protocol identifiers a .daisconfig may carry, as character sequences.
ProtocolIds ==
  { <<"b","a","n","c","o","r">>,
    <<"D","y","D","x">>,
    <<"K","Y","B","E","R">>,
    <<"O","n","e","I","n","c","h">>,
    <<"u","n","i","S","W","A","P">>,
    <<"m","a","d","e","_","u","p">>,
    <<"e","r","r","o","r">> }

IContractImport == [protocol : ProtocolIds]

RECURSIVE SeqsUpTo(_, _)
SeqsUpTo(S, n) ==
  IF n = 0 THEN {<<>>}
  ELSE LET shorter == SeqsUpTo(S, n - 1)
       IN  shorter \cup {Append(s, x) : s \in {t \in shorter : Len(t) = n - 1}, x \in S}

ImportLists == SeqsUpTo(IContractImport, MaxImports)

\* What a generator's promise may fulfil with (IWriterReturn).
EmptyReturn == [ABIs |-> <<>>, Addresses |-> <<>>, Pack |-> ""]

WriterReturns ==
  { [ABIs |-> <<"IA">>,
     Addresses |-> <<[ContractName |-> "CA", Address |-> "0xA", NET |-> "MAINNET"]>>,
     Pack |-> "pack1"],
    [ABIs |-> <<"IB", "IA">>,
     Addresses |-> <<[ContractName |-> "CB", Address |-> "0xB", NET |-> "KOVAN"],
                     [ContractName |-> "CC", Address |-> "0xC", NET |-> "KOVAN"]>>,
     Pack |-> "pack2"],
    [ABIs |-> <<"IC">>,
     Addresses |-> <<[ContractName |-> "CD", Address |-> "0xD", NET |-> "ROPSTEN"],
                     [ContractName |-> "CE", Address |-> "0xE", NET |-> "all"]>>,
     Pack |-> "pack1"] }

\* ------------------------------------------------------------------ errors
NoErr == [kind |-> "none", at |-> 0, sub |-> 0]

Err(kind, at, sub) == [kind |-> kind, at |-> at, sub |-> sub]

Pending == [state |-> "pending", err |-> NoErr]

Fulfilled == [state |-> "fulfilled", err |-> NoErr]

Rejected(e) == [state |-> "rejected", err |-> e]

\* ------------------------------------------------------------------- state
VARIABLES
  madeDirs,         \* #madeDirs: protocol -> BOOLEAN
  addresses,        \* #addresses: bucket -> network -> sequence of records
  abis,             \* #abis: bucket -> sequence of ABI fragments
  runs,             \* number of calls of Assemble so far
  dir,              \* main's argument dir
  contractImports,  \* main's argument contractImports
  mainState,        \* main's promise: idle, makeBaseDirs, work, build, resolved, rejected
  mainResult,       \* what main's promise settled with
  baseDirs,         \* the four makeDir calls of makeBaseDirs
  baseDirsPromise,  \* the Promise.all of makeBaseDirs
  tasks,            \* one generator invocation per contract import
  workPromise,      \* the Promise.all of #work
  files,            \* the two makeFile calls: status and text
  buildPromise,     \* the Promise.all over the two makeFile calls
  dirCalls,         \* makeDir calls made by #bancor / #dydx in this run, per path
  supportDirs,      \* protocol directories created so far: <<dir, path>>
  rejections        \* history: the errors of the rejected invocations of this run, in order

vars == << madeDirs, addresses, abis, runs, dir, contractImports, mainState,
           mainResult, baseDirs, baseDirsPromise, tasks, workPromise, files,
           buildPromise, dirCalls, supportDirs, rejections >>

engineVars == << madeDirs, addresses, abis >>

NoResult == [value |-> <<>>, err |-> NoErr]

NoFile == [status |-> "none", text |-> <<>>]

FileNames == <<"/lib/abis.ts", "/lib/addresses.ts">>

\* ------------------------------------------------------------ construction
Init ==
  /\ madeDirs = [p \in SupportedProtocol |-> FALSE]
  /\ addresses = [p \in Buckets |-> [n \in SupportedNetwork |-> <<>>]]
  /\ abis = [p \in Buckets |-> <<>>]
  /\ runs = 0
  /\ dir = "d1"
  /\ contractImports = <<>>
  /\ mainState = "idle"
  /\ mainResult = NoResult
  /\ baseDirs = [k \in 1..Len(BaseDirPaths) |-> "none"]
  /\ baseDirsPromise = Pending
  /\ tasks = <<>>
  /\ workPromise = Pending
  /\ files = [k \in 1..Len(FileNames) |-> NoFile]
  /\ buildPromise = Pending
  /\ dirCalls = [path \in SupportPaths |-> 0]
  /\ supportDirs = {}
  /\ rejections = <<>>

\* -------------------------------------------------------- pure functions
LowerCase == <<"a","b","c","d","e","f","g","h","i","j","k","l","m",
               "n","o","p","q","r","s","t","u","v","w","x","y","z">>

UpperCase == <<"A","B","C","D","E","F","G","H","I","J","K","L","M",
               "N","O","P","Q","R","S","T","U","V","W","X","Y","Z">>

\* One character of String.prototype.toUpperCase (ASCII): a lower-case
\* letter becomes its capital, every other character is kept.
UpperChar(c) ==
  IF \E k \in 1..Len(LowerCase) : LowerCase[k] = c
    THEN UpperCase[CHOOSE k \in 1..Len(LowerCase) : LowerCase[k] = c]
    ELSE c

toUpperCase(s) == [k \in 1..Len(s) |-> UpperChar(s[k])]

\* this.protocols[protocol] is defined.
HasProtocol(key) == \E p \in Buckets : ProtocolKey[p] = key

\* Variant: the identifier is looked up as written.
UpperCaseSkipped(id) == id

\* ci.protocol.toUpperCase() of #work.
UpperCased(id) == toUpperCase(id)

\* Variant: an identifier that names no table entry is kept as the key.
NormalizeKeepsUnknown(id) ==
  LET protocol == UpperCased(id)
  IN  IF ~HasProtocol(protocol)
        THEN "MADE_UP"
        ELSE CHOOSE p \in Buckets : ProtocolKey[p] = protocol

\* #work: protocol = ci.protocol.toUpperCase();
\*        protocol = !this.protocols[protocol] ? 'ERROR' : protocol
Normalize(id) ==
  LET protocol == UpperCased(id)
  IN  IF ~HasProtocol(protocol)
        THEN "ERROR"
        ELSE CHOOSE p \in Buckets : ProtocolKey[p] = protocol

\* The generators of the protocols table that create directories first.
NeedsDirs(p) == p \in DOMAIN ProtocolDirPaths

\* Variant: the directories are created whatever the flag says.
FlagIgnored(p) == TRUE

\* if (!this.#madeDirs.BANCOR) ... / if (!this.#madeDirs.DYDX) ...
FlagIsFalse(p) == ~madeDirs[p]

\* Variant: every table entry, ERROR included, may return data.
ErrorReturnsData(p) == WriterReturns

\* What the generator of protocol p may fulfil with: the writers are
\* external, the other table entries return the empty result.
GeneratorReturns(p) ==
  IF NeedsDirs(p) THEN WriterReturns ELSE {EmptyReturn}

\* [...new Set(val)]: a Set keeps the first insertion of each element and
\* iterates in insertion order.
RECURSIVE NewSet(_)
NewSet(val) ==
  IF val = <<>> THEN <<>>
  ELSE LET front == NewSet(SubSeq(val, 1, Len(val) - 1))
           last == val[Len(val)]
       IN  IF last \in Range(front) THEN front ELSE Append(front, last)

\* Variant: val is returned as it is.
SpreadKeepsAll(val) == val

\* main: () => [...new Set(val)]
Unique(val) == NewSet(val)

\* ----------------------------------------------------------------- actions
Quiescent ==
  /\ mainState \in {"idle", "resolved", "rejected"}
  /\ \A k \in DOMAIN baseDirs : baseDirs[k] # "pending"
  /\ \A i \in DOMAIN tasks :
        tasks[i].pc \in {"fulfilled", "rejected"} /\ tasks[i].pendingDirs = {}
  /\ \A k \in DOMAIN files : files[k].status # "pending"

\* Assemble(dir): fetchdaisconfig, then ProtocolFileWriter.instance.main,
\* whose first synchronous step is makeBaseDirs(dir): four makeDir calls.
Assemble(d) ==
  /\ runs < MaxRuns
  /\ Quiescent
  /\ runs = 0 => d = "d1"
  /\ runs' = runs + 1
  /\ dir' = d
  /\ contractImports' = <<>>
  /\ mainState' = "makeBaseDirs"
  /\ mainResult' = NoResult
  /\ baseDirs' = [k \in 1..Len(BaseDirPaths) |-> "pending"]
  /\ baseDirsPromise' = Pending
  /\ tasks' = <<>>
  /\ workPromise' = Pending
  /\ files' = [k \in 1..Len(FileNames) |-> NoFile]
  /\ buildPromise' = Pending
  /\ dirCalls' = [path \in SupportPaths |-> 0]
  /\ rejections' = <<>>
  /\ UNCHANGED << madeDirs, addresses, abis, supportDirs >>

\* Promise.all: fulfilled by the last fulfilment, rejected by the first rejection.
AllFulfilled(statuses) == \A k \in DOMAIN statuses : statuses[k] = "done"

SettleAll(promise, statuses) ==
  IF promise.state = "pending" /\ AllFulfilled(statuses) THEN Fulfilled ELSE promise

\* Variant: a later rejection replaces the error of an earlier one.
LastRejectionWins(promise, e) == Rejected(e)

RejectAll(promise, e) ==
  IF promise.state = "pending" THEN Rejected(e) ELSE promise

\* One makeDir of makeBaseDirs resolves.
BaseDirResolve(k) ==
  /\ baseDirs[k] = "pending"
  /\ baseDirs' = [baseDirs EXCEPT ![k] = "done"]
  /\ baseDirsPromise' = SettleAll(baseDirsPromise, baseDirs')
  /\ UNCHANGED << madeDirs, addresses, abis, runs, dir, contractImports, mainState,
                  mainResult, tasks, workPromise, files, buildPromise, dirCalls,
                  supportDirs, rejections >>

\* One makeDir of makeBaseDirs rejects.
BaseDirReject(k) ==
  /\ baseDirs[k] = "pending"
  /\ baseDirs' = [baseDirs EXCEPT ![k] = "failed"]
  /\ baseDirsPromise' = RejectAll(baseDirsPromise, Err("makeBaseDirs", k, 0))
  /\ UNCHANGED << madeDirs, addresses, abis, runs, dir, contractImports, mainState,
                  mainResult, tasks, workPromise, files, buildPromise, dirCalls,
                  supportDirs, rejections >>

\* main: makeBaseDirs(dir).then(..., e => { throw e })
MainBaseDirsRejected ==
  /\ mainState = "makeBaseDirs"
  /\ baseDirsPromise.state = "rejected"
  /\ mainState' = "rejected"
  /\ mainResult' = [value |-> <<>>, err |-> baseDirsPromise.err]
  /\ UNCHANGED << madeDirs, addresses, abis, runs, dir, contractImports, baseDirs,
                  baseDirsPromise, tasks, workPromise, files, buildPromise, dirCalls,
                  supportDirs, rejections >>

\* The promise of one element of #work's contractImports.map(...).
Task(p, pc, pendingDirs, val, e) ==
  [protocol |-> p, pc |-> pc, pendingDirs |-> pendingDirs, val |-> val, err |-> e]

\* The synchronous part of this.protocols[protocol](dir, solver, net, ci):
\* #bancor and #dydx call makeDir for each of their directories when the
\* flag is false and the writer at once when it is true; the other
\* generators return without awaiting anything.
Invoke(p) ==
  IF NeedsDirs(p) /\ FlagIsFalse(p)
    THEN Task(p, "makeDir", 1..Len(ProtocolDirPaths[p]), EmptyReturn, NoErr)
    ELSE Task(p, "pending", {}, EmptyReturn, NoErr)

\* Variant: #work is called without awaiting makeBaseDirs.
BaseDirsStarted == baseDirsPromise.state = "pending"

\* The promise of makeBaseDirs(dir) has fulfilled.
BaseDirsResolved == baseDirsPromise.state = "fulfilled"

\* main: makeBaseDirs(dir).then(() => this.#work(...)).  #work maps every
\* import to its generator's promise in one synchronous pass, so every
\* invocation of the batch reads the flags before any of them is set.
Work(imports) ==
  /\ mainState = "makeBaseDirs"
  /\ BaseDirsResolved
  /\ mainState' = "work"
  /\ contractImports' = imports
  /\ tasks' = [i \in 1..Len(imports) |-> Invoke(Normalize(imports[i].protocol))]
  /\ dirCalls' = [path \in SupportPaths |->
                    dirCalls[path] +
                    Cardinality({i \in 1..Len(imports) :
                       /\ tasks'[i].pc = "makeDir"
                       /\ path \in Range(ProtocolDirPaths[tasks'[i].protocol])})]
  /\ workPromise' = IF imports = <<>> THEN Fulfilled ELSE Pending
  /\ UNCHANGED << madeDirs, addresses, abis, runs, dir, mainResult,
                  baseDirs, baseDirsPromise, files, buildPromise, supportDirs,
                  rejections >>

\* A makeDir of #bancor / #dydx resolves.  When it is the last one of the
\* invocation, the flag is set and the writer is called.
DirResolve(i, k) ==
  /\ i \in DOMAIN tasks
  /\ tasks[i].pc = "makeDir"
  /\ k \in tasks[i].pendingDirs
  /\ LET p == tasks[i].protocol
         left == tasks[i].pendingDirs \ {k}
     IN  /\ supportDirs' = supportDirs \cup {<<dir, ProtocolDirPaths[p][k]>>}
         /\ tasks' = [tasks EXCEPT ![i].pendingDirs = left,
                                   ![i].pc = IF left = {} THEN "pending" ELSE "makeDir"]
         /\ madeDirs' = IF left = {} THEN [madeDirs EXCEPT ![p] = TRUE] ELSE madeDirs
  /\ UNCHANGED << addresses, abis, runs, dir, contractImports, mainState, mainResult,
                  baseDirs, baseDirsPromise, workPromise, files, buildPromise,
                  dirCalls, rejections >>

\* A makeDir of #bancor / #dydx rejects: the invocation rejects, the flag
\* stays as it is and the writer is not called.
DirReject(i, k) ==
  /\ i \in DOMAIN tasks
  /\ tasks[i].pc = "makeDir"
  /\ k \in tasks[i].pendingDirs
  /\ LET e == Err("makeDir", i, k)
     IN  /\ tasks' = [tasks EXCEPT ![i].pc = "rejected", ![i].err = e,
                                   ![i].pendingDirs = @ \ {k}]
         /\ workPromise' = RejectAll(workPromise, e)
         /\ rejections' = Append(rejections, e)
  /\ UNCHANGED << madeDirs, addresses, abis, runs, dir, contractImports, mainState,
                  mainResult, baseDirs, baseDirsPromise, files, buildPromise, dirCalls,
                  supportDirs >>

\* The other makeDir of a rejected #dydx invocation settles: nothing awaits it.
DirStraggler(i, k, created) ==
  /\ i \in DOMAIN tasks
  /\ tasks[i].pc = "rejected"
  /\ k \in tasks[i].pendingDirs
  /\ tasks' = [tasks EXCEPT ![i].pendingDirs = @ \ {k}]
  /\ supportDirs' = IF created
                      THEN supportDirs \cup {<<dir, ProtocolDirPaths[tasks[i].protocol][k]>>}
                      ELSE supportDirs
  /\ UNCHANGED << madeDirs, addresses, abis, runs, dir, contractImports, mainState,
                  mainResult, baseDirs, baseDirsPromise, workPromise, files,
                  buildPromise, dirCalls, rejections >>

\* BancorWriter / DyDxWriter rejects: .catch(e => { throw e }).
WriterReject(i) ==
  /\ i \in DOMAIN tasks
  /\ tasks[i].pc = "pending"
  /\ NeedsDirs(tasks[i].protocol)
  /\ LET e == Err("writer", i, 0)
     IN  /\ tasks' = [tasks EXCEPT ![i].pc = "rejected", ![i].err = e]
         /\ workPromise' = RejectAll(workPromise, e)
         /\ rejections' = Append(rejections, e)
  /\ UNCHANGED << madeDirs, addresses, abis, runs, dir, contractImports, mainState,
                  mainResult, baseDirs, baseDirsPromise, files, buildPromise, dirCalls,
                  supportDirs >>

\* The address records forEach pushes before it meets a record whose NET
\* is no key of #addresses[protocol] (push on undefined throws).
Pushable(records) ==
  LET bad == {k \in 1..Len(records) : records[k].NET \notin SupportedNetwork}
  IN  IF bad = {} THEN records
      ELSE SubSeq(records, 1, (CHOOSE k \in bad : \A m \in bad : k <= m) - 1)

PushedTo(records, net) ==
  LET OnNet(a) == a.NET = net
      sel == SelectSeq(records, OnNet)
  IN  [k \in 1..Len(sel) |->
         [ContractName |-> sel[k].ContractName, Address |-> sel[k].Address]]

\* Variant: the items are put in front of the stored ones.
Unshift(bucket, items) == items \o bucket

\* Variant: the items are stored last to first.
PushReversed(bucket, items) ==
  bucket \o [k \in 1..Len(items) |-> items[Len(items) + 1 - k]]

\* Array.prototype.push: the items are appended, in their order.
Push(bucket, items) == bucket \o items

\* Variant: Promise.all fulfils with the first fulfilment.
SomeTaskSettled(ts) == \E i \in DOMAIN ts : ts[i].pc = "fulfilled"

\* Promise.all of #work: every element has fulfilled.
TasksSettled(ts) == \A i \in DOMAIN ts : ts[i].pc = "fulfilled"

\* The generator of invocation i fulfils with val and the then-callback of
\* #work folds it: push(...val.ABIs), forEach(address => push), return val.Pack.
Fold(i, val) ==
  /\ i \in DOMAIN tasks
  /\ tasks[i].pc = "pending"
  /\ val \in GeneratorReturns(tasks[i].protocol)
  /\ LET p == tasks[i].protocol
         pushed == Pushable(val.Addresses)
         thrown == Len(pushed) < Len(val.Addresses)
         e == Err("TypeError", i, Len(pushed) + 1)
     IN  /\ abis' = [abis EXCEPT ![p] = Push(@, val.ABIs)]
         /\ addresses' = [addresses EXCEPT ![p] =
                            [net \in SupportedNetwork |->
                               Push(@[net], PushedTo(pushed, net))]]
         /\ tasks' = [tasks EXCEPT ![i].pc = IF thrown THEN "rejected" ELSE "fulfilled",
                                   ![i].val = val,
                                   ![i].err = IF thrown THEN e ELSE NoErr]
         /\ workPromise' =
              IF thrown THEN RejectAll(workPromise, e)
              ELSE IF workPromise.state = "pending" /\ TasksSettled(tasks')
                     THEN Fulfilled ELSE workPromise
         /\ rejections' = IF thrown THEN Append(rejections, e) ELSE rejections
  /\ UNCHANGED << madeDirs, runs, dir, contractImports, mainState, mainResult,
                  baseDirs, baseDirsPromise, files, buildPromise, dirCalls, supportDirs >>

\* main: .then(val => ..., e => { throw e }) on #work's rejection.
MainWorkRejected ==
  /\ mainState = "work"
  /\ workPromise.state = "rejected"
  /\ mainState' = "rejected"
  /\ mainResult' = [value |-> <<>>, err |-> workPromise.err]
  /\ UNCHANGED << madeDirs, addresses, abis, runs, dir, contractImports, baseDirs,
                  baseDirsPromise, tasks, workPromise, files, buildPromise, dirCalls,
                  supportDirs, rejections >>

\* ---------------------------------------------------------------- rendering
\* A text is the sequence of the pieces the code concatenates; white space
\* is kept in pieces of its own so that trim() can be applied.
WhiteSpace == {"\n", "\n  ", "\n    ", "\n      "}

RECURSIVE TrimStart(_)
TrimStart(text) ==
  IF text # <<>> /\ Head(text) \in WhiteSpace THEN TrimStart(Tail(text)) ELSE text

RECURSIVE TrimEnd(_)
TrimEnd(text) ==
  IF text # <<>> /\ text[Len(text)] \in WhiteSpace
    THEN TrimEnd(SubSeq(text, 1, Len(text) - 1))
    ELSE text

\* String.prototype.trim
Trim(text) == TrimEnd(TrimStart(text))

\* for (const abi of abis) ABIfile += '\n  ' + abi.ABI + ','
RECURSIVE AbiLines(_)
AbiLines(bucket) ==
  IF bucket = <<>> THEN <<>>
  ELSE <<"\n  ", Head(bucket), ",">> \o AbiLines(Tail(bucket))

\* Variant: every bucket gets an export.
SkipsNoBucket(protocol, bucket) == FALSE

\* if (abis.length === 0 || protocol === 'ERROR') continue
SkipsAbiBucket(protocol, bucket) == Len(bucket) = 0 \/ protocol = "ERROR"

\* The loop of #buildABIFile over Object.entries(this.#abis), from entry k on.
RECURSIVE AbiEntriesFrom(_, _)
AbiEntriesFrom(k, A) ==
  IF k > Len(BucketKeys) THEN <<>>
  ELSE LET protocol == BucketKeys[k]
       IN  (IF SkipsAbiBucket(protocol, A[protocol]) THEN <<>>
            ELSE <<"\n", "export const ", protocol, "_ABI = {">>
                 \o AbiLines(A[protocol])
                 \o <<"\n", "}">>)
           \o AbiEntriesFrom(k + 1, A)

\* #buildABIFile: the text handed to makeFile(dir + '/lib/abis.ts', ...).
buildABIFile(A) == Trim(AbiEntriesFrom(1, A))

\* for (const address of addresses) AddressesFile += ...
RECURSIVE AddressLines(_)
AddressLines(records) ==
  IF records = <<>> THEN <<>>
  ELSE <<"\n      ", Head(records).ContractName, ": ", Head(records).Address, ",">>
       \o AddressLines(Tail(records))

\* The loop over Object.entries(networks), from network k on.
RECURSIVE NetworkEntriesFrom(_, _)
NetworkEntriesFrom(k, networks) ==
  IF k > Len(SupportedNetworkArray) THEN <<>>
  ELSE LET net == SupportedNetworkArray[k]
       IN  (IF Len(networks[net]) = 0 THEN <<>>
            ELSE <<"\n    ", net, ": {">>
                 \o AddressLines(networks[net])
                 \o <<"\n    ", "},">>)
           \o NetworkEntriesFrom(k + 1, networks)

\* Variant: only the MAINNET list decides whether a protocol is left out.
SkipsOnMainnetOnly(protocol, networks) ==
  protocol = "ERROR" \/ Len(networks["MAINNET"]) = 0

\* if (protocol === 'ERROR') continue; if (all three networks empty) continue
SkipsAddressBucket(protocol, networks) ==
  \/ protocol = "ERROR"
  \/ /\ Len(networks["MAINNET"]) = 0
     /\ Len(networks["KOVAN"]) = 0
     /\ Len(networks["ROPSTEN"]) = 0

\* The loop of #buildAddressesFile over Object.entries(this.#addresses).
RECURSIVE AddressEntriesFrom(_, _)
AddressEntriesFrom(k, D) ==
  IF k > Len(BucketKeys) THEN <<>>
  ELSE LET protocol == BucketKeys[k]
       IN  (IF SkipsAddressBucket(protocol, D[protocol]) THEN <<>>
            ELSE <<"\n  ", protocol, ": {">>
                 \o NetworkEntriesFrom(1, D[protocol])
                 \o <<"\n  ", "},", "\n">>)
           \o AddressEntriesFrom(k + 1, D)

\* #buildAddressesFile: the text handed to makeFile(dir + '/lib/addresses.ts', ...).
buildAddressesFile(D) ==
  Trim(<<"export const Addresses = {">> \o AddressEntriesFrom(1, D) \o <<"\n", "}">>)

\* ------------------------------------------------------- actions, continued
\* The promise of #work has fulfilled.
WorkResolved == workPromise.state = "fulfilled"

\* val of main's then-callback: the Pack of every invocation, in import order.
Val == [i \in 1..Len(tasks) |-> tasks[i].val.Pack]

\* main: .then(val => Promise.all([#buildABIFile(dir), #buildAddressesFile(dir)])):
\* both texts are rendered and both makeFile calls are made in one synchronous step.
Build ==
  /\ mainState = "work"
  /\ WorkResolved
  /\ mainState' = "build"
  /\ files' = [k \in 1..Len(FileNames) |->
                 [status |-> "pending",
                  text |-> IF k = 1 THEN buildABIFile(abis)
                                    ELSE buildAddressesFile(addresses)]]
  /\ UNCHANGED << madeDirs, addresses, abis, runs, dir, contractImports, mainResult,
                  baseDirs, baseDirsPromise, tasks, workPromise, buildPromise, dirCalls,
                  supportDirs, rejections >>

FileStatuses(fs) == [k \in DOMAIN fs |-> IF fs[k].status = "written" THEN "done" ELSE fs[k].status]

\* A makeFile call resolves.
FileResolve(k) ==
  /\ k \in DOMAIN files
  /\ files[k].status = "pending"
  /\ files' = [files EXCEPT ![k].status = "written"]
  /\ buildPromise' = SettleAll(buildPromise, FileStatuses(files'))
  /\ UNCHANGED << madeDirs, addresses, abis, runs, dir, contractImports, mainState,
                  mainResult, baseDirs, baseDirsPromise, tasks, workPromise, dirCalls,
                  supportDirs, rejections >>

\* A makeFile call rejects.
FileReject(k) ==
  /\ k \in DOMAIN files
  /\ files[k].status = "pending"
  /\ files' = [files EXCEPT ![k].status = "failed"]
  /\ buildPromise' = RejectAll(buildPromise, Err("makeFile", k, 0))
  /\ UNCHANGED << madeDirs, addresses, abis, runs, dir, contractImports, mainState,
                  mainResult, baseDirs, baseDirsPromise, tasks, workPromise, dirCalls,
                  supportDirs, rejections >>

\* main: Promise.all([...]).then(() => [...new Set(val)], e => { throw e })
MainResolve ==
  /\ mainState = "build"
  /\ buildPromise.state = "fulfilled"
  /\ mainState' = "resolved"
  /\ mainResult' = [value |-> Unique(Val), err |-> NoErr]
  /\ UNCHANGED << madeDirs, addresses, abis, runs, dir, contractImports, baseDirs,
                  baseDirsPromise, tasks, workPromise, files, buildPromise, dirCalls,
                  supportDirs, rejections >>

MainBuildRejected ==
  /\ mainState = "build"
  /\ buildPromise.state = "rejected"
  /\ mainState' = "rejected"
  /\ mainResult' = [value |-> <<>>, err |-> buildPromise.err]
  /\ UNCHANGED << madeDirs, addresses, abis, runs, dir, contractImports, baseDirs,
                  baseDirsPromise, tasks, workPromise, files, buildPromise, dirCalls,
                  supportDirs, rejections >>

\* ------------------------------------------------------------ specification
Next ==
  \/ \E d \in Dirs : Assemble(d)
  \/ \E k \in 1..Len(BaseDirPaths) : BaseDirResolve(k)
  \/ \E k \in 1..Len(BaseDirPaths) : BaseDirReject(k)
  \/ MainBaseDirsRejected
  \/ \E imports \in ImportLists : Work(imports)
  \/ \E i \in 1..MaxImports, k \in 1..2 : DirResolve(i, k)
  \/ \E i \in 1..MaxImports, k \in 1..2 : DirReject(i, k)
  \/ \E i \in 1..MaxImports, k \in 1..2, created \in BOOLEAN : DirStraggler(i, k, created)
  \/ \E i \in 1..MaxImports : WriterReject(i)
  \/ \E i \in 1..MaxImports, val \in WriterReturns \cup {EmptyReturn} : Fold(i, val)
  \/ MainWorkRejected
  \/ Build
  \/ \E k \in 1..Len(FileNames) : FileResolve(k)
  \/ \E k \in 1..Len(FileNames) : FileReject(k)
  \/ MainResolve
  \/ MainBuildRejected

Spec == Init /\ [][Next]_vars

\* ------------------------------------------------------------------ claims
FirstIndex(seq, x) == CHOOSE k \in 1..Len(seq) : seq[k] = x /\ \A m \in 1..(k - 1) : seq[m] # x

BancorPath == "/contracts/interfaces/Bancor"

IdBancor == <<"b","a","n","c","o","r">>

IdMadeUp == <<"m","a","d","e","_","u","p">>

\* The identifiers of ProtocolIds whose upper-casing names no supported protocol.
UnsupportedIds == { IdMadeUp, <<"e","r","r","o","r">> }

\* The generator each supported identifier of ProtocolIds must reach.
ExpectedGenerator(id) ==
  CASE id = IdBancor -> "BANCOR"
    [] id = <<"D","y","D","x">> -> "DYDX"
    [] id = <<"K","Y","B","E","R">> -> "KYBER"
    [] id = <<"O","n","e","I","n","c","h">> -> "ONEINCH"
    [] id = <<"u","n","i","S","W","A","P">> -> "UNISWAP"

\* C1: every base-directory creation has completed before a generator is
\* invoked, and no artifact write starts before every invocation of the
\* batch has fulfilled and been folded.
C1_StrictOrdering ==
  /\ (tasks # <<>> \/ mainState \in {"work", "build", "resolved"})
       => \A k \in DOMAIN baseDirs : baseDirs[k] = "done"
  /\ (\E k \in DOMAIN files : files[k].status # "none")
       => /\ Len(tasks) = Len(contractImports)
          /\ \A i \in DOMAIN tasks : tasks[i].pc = "fulfilled"

C1_Witness ==
  /\ Len(tasks) = 2
  /\ tasks[1].protocol = "BANCOR"
  /\ tasks[2].protocol = "DYDX"
  /\ files[1].status = "pending"
  /\ files[2].status = "pending"

GeneratorRejected(i) ==
  tasks[i].pc = "rejected" /\ tasks[i].err.kind \in {"writer", "makeDir"}

\* C2 as stated: when a generator invocation rejects, main rejects with the
\* error of that invocation and no artifact is written.
C2_SameErrorOfAny ==
  \A i \in DOMAIN tasks :
    GeneratorRejected(i)
      => /\ mainState = "rejected" => mainResult.err = tasks[i].err
         /\ \A k \in DOMAIN files : files[k].status = "none"

\* C2 amended: when an invocation of the batch rejects, #work's promise is
\* rejected with the error of the first invocation to reject, main rejects
\* with that error and with no other, and no artifact is written in the run.
C2_FirstRejectionWins ==
  rejections # <<>>
    => /\ workPromise = Rejected(rejections[1])
       /\ mainState \in {"work", "rejected"}
       /\ mainState = "rejected" => mainResult.err = rejections[1]
       /\ \A k \in DOMAIN files : files[k].status = "none"

C2_Witness ==
  /\ Len(rejections) = 2
  /\ rejections[1].kind = "writer"
  /\ rejections[2].kind = "writer"
  /\ mainState = "rejected"

Unsupported(i) == contractImports[i].protocol \in UnsupportedIds

C3_Routed ==
  /\ \A i \in DOMAIN tasks :
       Unsupported(i)
         => /\ tasks[i].protocol = "ERROR"
            /\ tasks[i].pc # "rejected"
            /\ tasks[i].val = EmptyReturn
  /\ workPromise.state = "rejected"
       => \E j \in DOMAIN tasks :
            ~Unsupported(j) /\ tasks[j].pc = "rejected" /\ workPromise.err = tasks[j].err
  /\ (tasks # <<>> /\ \A i \in DOMAIN tasks : Unsupported(i) \/ tasks[i].pc = "fulfilled")
       => workPromise.state # "rejected"

C3_FoldAddsNothing ==
  \A i \in DOMAIN tasks :
    (Unsupported(i) /\ i \in DOMAIN tasks' /\ tasks[i].pc = "pending"
       /\ tasks'[i].pc = "fulfilled")
      => UNCHANGED << abis, addresses >>

\* C3: an import whose upper-cased identifier is no supported protocol goes
\* to the ERROR generator, never rejects, adds nothing to any bucket, and
\* never is the cause of the batch's rejection.
C3_UnsupportedIsHarmless == []C3_Routed /\ [][C3_FoldAddsNothing]_vars

C3_Witness ==
  /\ Len(tasks) = 2
  /\ contractImports[1].protocol = IdMadeUp
  /\ contractImports[2].protocol = IdBancor
  /\ tasks[1].pc = "fulfilled"
  /\ tasks[2].pc = "fulfilled"
  /\ mainState = "resolved"

Supported(i) == contractImports[i].protocol \notin UnsupportedIds

C4_Routed ==
  \A i \in DOMAIN tasks :
    Supported(i) => tasks[i].protocol = ExpectedGenerator(contractImports[i].protocol)

C4_FoldedIntoOwnBucket ==
  \A i \in DOMAIN tasks :
    (Supported(i) /\ i \in DOMAIN tasks' /\ tasks[i].pc = "pending"
       /\ tasks'[i].pc # "pending")
      => LET p == ExpectedGenerator(contractImports[i].protocol)
             val == tasks'[i].val
         IN  /\ abis' = [abis EXCEPT ![p] = @ \o val.ABIs]
             /\ \A q \in Buckets \ {p} : addresses'[q] = addresses[q]
             /\ tasks'[i].pc = "fulfilled"
                  => \A net \in SupportedNetwork :
                       addresses'[p][net] = addresses[p][net] \o PushedTo(val.Addresses, net)

\* C4: a supported identifier in any letter-casing reaches that protocol's
\* own generator, and what the generator returns is appended to that
\* protocol's bucket and to no other.
C4_CaseInsensitiveRouting == []C4_Routed /\ [][C4_FoldedIntoOwnBucket]_vars

C4_Witness ==
  /\ Len(tasks) = 2
  /\ contractImports[1].protocol = IdBancor
  /\ contractImports[2].protocol = <<"D","y","D","x">>
  /\ tasks[1].pc = "fulfilled"
  /\ tasks[2].pc = "fulfilled"
  /\ abis["BANCOR"] # <<>>
  /\ abis["DYDX"] # <<>>

PacksReturned == [i \in 1..Len(tasks) |-> tasks[i].val.Pack]

\* C5: the list main resolves to has no duplicate, holds exactly the packs
\* the generators returned, and orders them by first occurrence.
C5_Deduplicated ==
  mainState = "resolved"
    => LET r == mainResult.value
       IN  /\ \A a, b \in 1..Len(r) : a # b => r[a] # r[b]
           /\ Range(r) = Range(PacksReturned)
           /\ \A a, b \in 1..Len(r) :
                a < b => FirstIndex(PacksReturned, r[a]) < FirstIndex(PacksReturned, r[b])

C5_Witness ==
  /\ mainState = "resolved"
  /\ PacksReturned = <<"pack1", "pack1">>
  /\ mainResult.value = <<"pack1">>

\* C6: the list main resolves to holds no empty dependency pack.
C6_OnlyNonEmptyPacks ==
  mainState = "resolved" => \A k \in 1..Len(mainResult.value) : mainResult.value[k] # ""

C7_Step ==
  \A p \in SupportedProtocol :
    madeDirs[p]
      => /\ madeDirs'[p]
         /\ NeedsDirs(p)
              => \A path \in Range(ProtocolDirPaths[p]) : dirCalls'[path] <= dirCalls[path]

\* C7: once a protocol's flag is true it stays true, and no later
\* invocation of that protocol's generator calls makeDir.
C7_ProvisionedOnce == [][C7_Step]_vars

C7_Witness ==
  /\ runs = 2
  /\ madeDirs["BANCOR"]
  /\ dirCalls[BancorPath] = 0
  /\ \E i \in DOMAIN tasks : tasks[i].protocol = "BANCOR" /\ tasks[i].pc = "pending"

\* C8: within one batch every protocol directory is created by at most one
\* makeDir call.
C8_AtMostOneCreation == \A path \in SupportPaths : dirCalls[path] <= 1

\* C9: when a run of main starts, every bucket is empty and every flag is false.
C9_FreshAtRunStart ==
  mainState = "makeBaseDirs"
    => /\ \A p \in SupportedProtocol : ~madeDirs[p]
       /\ \A p \in Buckets :
            /\ abis[p] = <<>>
            /\ \A net \in SupportedNetwork : addresses[p][net] = <<>>

Malformed == <<[protocol |-> "(malformed)", fragments |-> <<>>]>>

\* Reads back the lines "\n  <fragment>," of one export, from piece k on.
RECURSIVE ParseAbiLines(_, _)
ParseAbiLines(text, k) ==
  IF k + 2 <= Len(text) /\ text[k] = "\n  " /\ text[k + 2] = ","
    THEN LET rest == ParseAbiLines(text, k + 3)
         IN  [fragments |-> <<text[k + 1]>> \o rest.fragments, next |-> rest.next]
    ELSE [fragments |-> <<>>, next |-> k]

\* Reads back the exports "export const <P>_ABI = { ... }" of an ABI registry text.
RECURSIVE ParseAbiExports(_, _)
ParseAbiExports(text, k) ==
  IF k > Len(text) THEN <<>>
  ELSE IF k + 2 <= Len(text) /\ text[k] = "export const " /\ text[k + 2] = "_ABI = {"
    THEN LET body == ParseAbiLines(text, k + 3)
             n == body.next
         IN  IF n + 1 <= Len(text) /\ text[n] = "\n" /\ text[n + 1] = "}"
               THEN <<[protocol |-> text[k + 1], fragments |-> body.fragments]>>
                    \o (IF n + 2 > Len(text) THEN <<>>
                        ELSE IF text[n + 2] = "\n" THEN ParseAbiExports(text, n + 3)
                        ELSE Malformed)
               ELSE Malformed
    ELSE Malformed

\* C10: the ABI registry text holds an export for a protocol exactly when
\* the protocol is not ERROR and its bucket is not empty, each export lists
\* the bucket's fragments in stored order with their duplicates, and the
\* text is empty when no bucket holds a fragment.
C10_AbiRegistry ==
  files[1].status # "none"
    => LET parsed == ParseAbiExports(files[1].text, 1)
           expected == {[protocol |-> p, fragments |-> abis[p]] :
                          p \in {q \in Buckets \ {"ERROR"} : abis[q] # <<>>}}
       IN  /\ Range(parsed) = expected
           /\ Len(parsed) = Cardinality(expected)
           /\ (\A p \in Buckets : abis[p] = <<>>) <=> files[1].text = <<>>
           /\ buildABIFile([abis EXCEPT !["ERROR"] = abis["BANCOR"]]) = files[1].text

C10_Witness ==
  /\ files[1].status = "written"
  /\ abis["BANCOR"] = <<"IA", "IB", "IA">>
  /\ abis["DYDX"] # <<>>
  /\ ParseAbiExports(files[1].text, 1) =
       <<[protocol |-> "BANCOR", fragments |-> <<"IA", "IB", "IA">>],
         [protocol |-> "DYDX", fragments |-> abis["DYDX"]]>>

\* Reads back the lines "\n      <name>: <address>," of one network object.
RECURSIVE ParseAddressLines(_, _)
ParseAddressLines(text, k) ==
  IF k + 4 <= Len(text) /\ text[k] = "\n      " /\ text[k + 2] = ": " /\ text[k + 4] = ","
    THEN LET rest == ParseAddressLines(text, k + 5)
         IN  [records |-> <<[ContractName |-> text[k + 1], Address |-> text[k + 3]]>>
                          \o rest.records,
              next |-> rest.next]
    ELSE [records |-> <<>>, next |-> k]

\* Reads back the network objects "\n    <NET>: { ... \n    }," of one protocol.
RECURSIVE ParseNetworks(_, _)
ParseNetworks(text, k) ==
  IF k + 2 <= Len(text) /\ text[k] = "\n    " /\ text[k + 2] = ": {"
    THEN LET body == ParseAddressLines(text, k + 3)
             n == body.next
         IN  IF n + 1 <= Len(text) /\ text[n] = "\n    " /\ text[n + 1] = "},"
               THEN LET rest == ParseNetworks(text, n + 2)
                    IN  [networks |-> <<[net |-> text[k + 1], records |-> body.records]>>
                                      \o rest.networks,
                         next |-> rest.next]
               ELSE [networks |-> <<[net |-> "(malformed)", records |-> <<>>]>>, next |-> n]
    ELSE [networks |-> <<>>, next |-> k]

MalformedAddresses == <<[protocol |-> "(malformed)", networks |-> <<>>]>>

\* Reads back the protocol objects "\n  <P>: { ... \n  },\n" and the closing "\n}".
RECURSIVE ParseAddressProtocols(_, _)
ParseAddressProtocols(text, k) ==
  IF k + 1 = Len(text) /\ text[k] = "\n" /\ text[k + 1] = "}" THEN <<>>
  ELSE IF k + 2 <= Len(text) /\ text[k] = "\n  " /\ text[k + 2] = ": {"
    THEN LET body == ParseNetworks(text, k + 3)
             n == body.next
         IN  IF n + 2 <= Len(text) /\ text[n] = "\n  " /\ text[n + 1] = "},"
                /\ text[n + 2] = "\n"
               THEN <<[protocol |-> text[k + 1], networks |-> body.networks]>>
                    \o ParseAddressProtocols(text, n + 3)
               ELSE MalformedAddresses
    ELSE MalformedAddresses

\* Reads back an address registry text.
ParseAddressesFile(text) ==
  IF text # <<>> /\ text[1] = "export const Addresses = {"
    THEN ParseAddressProtocols(text, 2)
    ELSE MalformedAddresses

HasRecords(p) == \E net \in SupportedNetwork : addresses[p][net] # <<>>

\* C11: the address registry text holds a key for a protocol exactly when
\* the protocol is not ERROR and has a record in some network, under it a
\* network key exactly when that network holds a record, and each network
\* object lists that bucket's records as name: address in stored order.
C11_AddressRegistry ==
  files[2].status # "none"
    => LET parsed == ParseAddressesFile(files[2].text)
           expected ==
             {[protocol |-> p,
               networks |-> {[net |-> net, records |-> addresses[p][net]] :
                               net \in {n \in SupportedNetwork : addresses[p][n] # <<>>}}] :
                p \in {q \in Buckets \ {"ERROR"} : HasRecords(q)}}
       IN  /\ {[protocol |-> parsed[k].protocol, networks |-> Range(parsed[k].networks)] :
                 k \in 1..Len(parsed)} = expected
           /\ Len(parsed) = Cardinality(expected)
           /\ \A k \in 1..Len(parsed) :
                Len(parsed[k].networks) = Cardinality(Range(parsed[k].networks))
           /\ buildAddressesFile([addresses EXCEPT !["ERROR"] = addresses["BANCOR"]])
                = files[2].text

C11_Witness ==
  /\ files[2].status = "written"
  /\ addresses["BANCOR"]["MAINNET"] # <<>>
  /\ Len(addresses["BANCOR"]["KOVAN"]) = 2
  /\ addresses["DYDX"]["MAINNET"] = <<>>
  /\ addresses["DYDX"]["KOVAN"] # <<>>
  /\ Len(ParseAddressesFile(files[2].text)) = 2

\* C12: the keys of the accumulator are the supported protocols and ERROR
\* whatever identifiers were dispatched, every invocation is filed under one
\* of them, and no rendered text names ERROR or anything but a supported
\* protocol.
C12_KeysAreProtocols ==
  /\ DOMAIN abis = Buckets
  /\ DOMAIN addresses = Buckets
  /\ \A p \in Buckets : DOMAIN addresses[p] = SupportedNetwork
  /\ \A i \in DOMAIN tasks : tasks[i].protocol \in Buckets
  /\ files[1].status # "none"
       => LET parsed == ParseAbiExports(files[1].text, 1)
          IN  /\ \A k \in 1..Len(parsed) : parsed[k].protocol \in SupportedProtocol
              /\ "ERROR" \notin Range(files[1].text)
  /\ files[2].status # "none"
       => LET parsed == ParseAddressesFile(files[2].text)
          IN  /\ \A k \in 1..Len(parsed) : parsed[k].protocol \in SupportedProtocol
              /\ "ERROR" \notin Range(files[2].text)

C12_Witness ==
  /\ Len(tasks) = 2
  /\ contractImports[1].protocol = <<"e","r","r","o","r">>
  /\ contractImports[2].protocol = IdBancor
  /\ files[1].status = "written"
  /\ files[2].status = "written"
  /\ abis["BANCOR"] # <<>>

\* C13: the ERROR bucket's ABI sequence and each of its address sequences
\* are empty in every reachable state.
C13_ErrorBucketEmpty ==
  /\ abis["ERROR"] = <<>>
  /\ \A net \in SupportedNetwork : addresses["ERROR"][net] = <<>>

C13_Witness ==
  /\ runs = 2
  /\ Len(tasks) = 2
  /\ tasks[1].protocol = "ERROR"
  /\ tasks[2].protocol = "ERROR"
  /\ tasks[1].pc = "fulfilled"
  /\ tasks[2].pc = "fulfilled"
  /\ abis["BANCOR"] # <<>>

IsPrefix(a, b) == Len(a) <= Len(b) /\ SubSeq(b, 1, Len(a)) = a

C14_Step ==
  \A p \in Buckets :
    /\ IsPrefix(abis[p], abis'[p])
    /\ \A net \in SupportedNetwork : IsPrefix(addresses[p][net], addresses'[p][net])

\* C14: every bucket of the accumulator only grows at its end: what it
\* holds in a state is a prefix of what it holds in every later state.
C14_AppendOnly == [][C14_Step]_vars

C14_Witness ==
  /\ runs = 2
  /\ Len(abis["BANCOR"]) = 3
  /\ Len(addresses["BANCOR"]["KOVAN"]) = 2
  /\ Len(addresses["BANCOR"]["MAINNET"]) = 1

\* The orders in which the invocations of S may have completed.
Orders(S) ==
  {o \in [1..Cardinality(S) -> S] : \A a, b \in 1..Cardinality(S) : a # b => o[a] # o[b]}

AbiBlock(i) == tasks[i].val.ABIs

AddressBlock(i, net) == PushedTo(Pushable(tasks[i].val.Addresses), net)

RECURSIVE AbiBlocks(_)
AbiBlocks(o) ==
  IF Len(o) = 0 THEN <<>> ELSE AbiBlock(o[1]) \o AbiBlocks([k \in 1..(Len(o) - 1) |-> o[k + 1]])

RECURSIVE AddressBlocks(_, _)
AddressBlocks(o, net) ==
  IF Len(o) = 0 THEN <<>>
  ELSE AddressBlock(o[1], net) \o AddressBlocks([k \in 1..(Len(o) - 1) |-> o[k + 1]], net)

\* In the first run every bucket is the blocks of its invocations, whole
\* and in their own order, one after the other.
C15_Blocks ==
  runs = 1
    => \A p \in Buckets :
         \E o \in Orders({i \in DOMAIN tasks : tasks[i].protocol = p}) :
           /\ abis[p] = AbiBlocks(o)
           /\ \A net \in SupportedNetwork : addresses[p][net] = AddressBlocks(o, net)

\* A bucket changes only by the whole block of one invocation that
\* completes in that step, put at its end.
C15_Step ==
  \A p \in Buckets :
    (abis'[p] # abis[p] \/ addresses'[p] # addresses[p])
      => \E i \in DOMAIN tasks :
           /\ i \in DOMAIN tasks'
           /\ tasks[i].protocol = p
           /\ tasks[i].pc = "pending"
           /\ tasks'[i].pc # "pending"
           /\ \A j \in DOMAIN tasks : j # i => tasks'[j] = tasks[j]
           /\ abis'[p] = abis[p] \o tasks'[i].val.ABIs
           /\ \A net \in SupportedNetwork :
                addresses'[p][net] =
                  addresses[p][net] \o PushedTo(Pushable(tasks'[i].val.Addresses), net)

\* C15: under every interleaving of completions, the fragments and records
\* of one result form a contiguous block of the protocol's bucket in the
\* result's own order, and the blocks follow the order of completion.
C15_AtomicFolds == []C15_Blocks /\ [][C15_Step]_vars

C15_Witness ==
  /\ runs = 1
  /\ Len(tasks) = 2
  /\ tasks[1].protocol = "BANCOR"
  /\ tasks[2].protocol = "BANCOR"
  /\ tasks[1].val.ABIs = <<"IA">>
  /\ tasks[2].val.ABIs = <<"IB", "IA">>
  /\ abis["BANCOR"] = <<"IB", "IA", "IA">>

\* The generator of invocation i has not settled.
Unsettled(i) == tasks[i].pc \in {"makeDir", "pending"}

\* C16 as stated: main's promise does not settle while a generator
\* invocation of the batch is unsettled.
C16_HungHangsRun ==
  mainState \in {"resolved", "rejected"}
    => \A i \in DOMAIN tasks : ~Unsettled(i)

\* C16: while a generator invocation of the batch is unsettled main's
\* promise does not resolve and no artifact is written; main stays pending
\* unless another invocation has rejected, and when it settles it rejects
\* with the error of the first invocation to reject.
C16_HungNeverResolves ==
  (\E i \in DOMAIN tasks : Unsettled(i))
    => /\ mainState \in {"work", "rejected"}
       /\ \A k \in DOMAIN files : files[k].status = "none"
       /\ (\A j \in DOMAIN tasks : tasks[j].pc # "rejected") => mainState = "work"
       /\ mainState = "rejected"
            => /\ rejections # <<>>
               /\ mainResult.err = rejections[1]
               /\ \E j \in DOMAIN tasks :
                    tasks[j].pc = "rejected" /\ tasks[j].err = mainResult.err

C16_Witness ==
  /\ Len(tasks) = 2
  /\ Unsettled(1)
  /\ tasks[2].pc = "rejected"
  /\ mainState = "rejected"
  /\ mainResult.err = tasks[2].err

\* A collaborator of the run has rejected: a makeDir of makeBaseDirs, a
\* makeDir or the writer of a generator, or a makeFile.
CollaboratorRejected ==
  \/ \E k \in DOMAIN baseDirs : baseDirs[k] = "failed"
  \/ \E i \in DOMAIN tasks : tasks[i].err.kind \in {"makeDir", "writer"}
  \/ \E k \in DOMAIN files : files[k].status = "failed"

\* C17 (its safety half): main resolves, with both artifacts written, only
\* when no collaborator rejected, and rejects only when one did.
C17_ResolvesIffNoneRejected ==
  /\ mainState = "resolved"
       => /\ ~CollaboratorRejected
          /\ \A k \in DOMAIN files : files[k].status = "written"
  /\ mainState = "rejected" => CollaboratorRejected

\* The fold of invocation i happens in this step.
Folds(i) ==
  /\ i \in DOMAIN tasks'
  /\ tasks[i].pc = "pending"
  /\ tasks'[i].pc # "pending"
  /\ tasks'[i].err.kind # "writer"

Sum3(f) == f["MAINNET"] + f["KOVAN"] + f["ROPSTEN"]

\* C18: the fold of a resolved result does not fail and drops nothing:
\* every fragment goes to the protocol's ABI bucket and every record to one
\* of the protocol's network buckets.
C18_Step ==
  \A i \in DOMAIN tasks :
    Folds(i)
      => LET p == tasks[i].protocol
             val == tasks'[i].val
         IN  /\ tasks'[i].pc = "fulfilled"
             /\ abis'[p] = abis[p] \o val.ABIs
             /\ Sum3([net \in SupportedNetwork |->
                        Len(addresses'[p][net]) - Len(addresses[p][net])])
                  = Len(val.Addresses)

C18_FoldStoresAll == [][C18_Step]_vars

\* The writer of invocation i has been called.
WriterInvoked(i) ==
  /\ NeedsDirs(tasks[i].protocol)
  /\ \/ tasks[i].pc \in {"pending", "fulfilled"}
     \/ tasks[i].pc = "rejected" /\ tasks[i].err.kind \in {"writer", "TypeError"}

\* C19: when BancorWriter or DyDxWriter has been called with directory dir,
\* the protocol's support directories have been created under dir.
C19_DirsBeforeWriter ==
  \A i \in DOMAIN tasks :
    WriterInvoked(i)
      => \A path \in Range(ProtocolDirPaths[tasks[i].protocol]) :
           <<dir, path>> \in supportDirs

\* C20: once main's promise has settled, the run changes neither the
\* accumulator nor the flags.
C20_Step ==
  (mainState \in {"resolved", "rejected"} /\ runs' = runs)
    => UNCHANGED engineVars

C20_SettledRunIsInert == [][C20_Step]_vars

====
